---- MODULE Spec2Model ----
(***************************************************************************)
(* DocuMind RAG pipeline: the orchestrator (services/api_service.py), the  *)
(* delete route (services/routes.py), the reranker                         *)
(* (services/reranker_service.py), the citation engine                     *)
(* (services/citation_service.py), the chunker entry point                 *)
(* (services/chunking_service.py) and the embedder's admission gate        *)
(* (services/simple_gemini_embedding_service.py).                          *)
(*                                                                         *)
(* Texts are sequences of one-character strings.  Requests are asyncio     *)
(* tasks on one event loop: `running` names the task that holds the loop;  *)
(* a task gives the loop up only where the code really suspends            *)
(* (asyncio.sleep in a retry, the httpx and AsyncOpenAI awaits, a wait on  *)
(* a saturated semaphore) or when its handler returns.                     *)
(***************************************************************************)
EXTENDS Integers, Sequences, FiniteSets, TLC

\* ------------------------------------------------------------------ bounds
MaxUploads == 2
MaxQueries == 1
MaxCandidates == 3

\* ------------------------------------------------------- program constants
MAX_CONCURRENT_EMBEDDINGS == 5
MAX_RETRIES == 3
MAX_CONCURRENT_LLM == 3
max_citations == 10
chunk_size == 1000
chunk_overlap == 150

Uploads == 1..MaxUploads
Queries == 1..MaxQueries
\* uuid4 doc ids: upload u generates the fresh id u; 0 is no document's id.
DocIds == Uploads
NoTask == <<"none", 0>>
UTask(u) == <<"upload", u>>
QTask(q) == <<"query", q>>

\* ------------------------------------------------------------------- texts
Whitespace == {" ", "\n", "\t", "\r"}
ControlChars == {"^A"}
UpperLetters ==
    <<"A", "B", "C", "D", "E", "F", "G", "H", "I", "J", "K", "L", "M",
      "N", "O", "P", "Q", "R", "S", "T", "U", "V", "W", "X", "Y", "Z">>
LowerLetters ==
    <<"a", "b", "c", "d", "e", "f", "g", "h", "i", "j", "k", "l", "m",
      "n", "o", "p", "q", "r", "s", "t", "u", "v", "w", "x", "y", "z">>
UpperCase == {UpperLetters[i] : i \in 1..26}
LowerCase == {LowerLetters[i] : i \in 1..26}

RECURSIVE lstrip(_)
lstrip(s) == IF s # <<>> /\ Head(s) \in Whitespace THEN lstrip(Tail(s)) ELSE s

RECURSIVE rstrip(_)
rstrip(s) ==
    IF s # <<>> /\ s[Len(s)] \in Whitespace THEN rstrip(SubSeq(s, 1, Len(s) - 1)) ELSE s

strip(s) == lstrip(rstrip(s))

\* The kept items of a sequence in which the dropped ones are marked.
Dropped == "dropped"
Kept(marked) == SelectSeq(marked, LAMBDA c : c # Dropped)

\* re.sub(r'\s+', ' ', content): the first character of a run of whitespace
\* becomes a space, the others of the run go.
CollapseWhitespace(s) ==
    Kept([i \in 1..Len(s) |->
        IF s[i] \notin Whitespace THEN s[i]
        ELSE IF i > 1 /\ s[i - 1] \in Whitespace THEN Dropped ELSE " "])

\* re.sub(r'[\x00-\x08\x0b\x0c\x0e-\x1f\x7f-\x9f]', '', content)
RemoveControl(s) == SelectSeq(s, LAMBDA c : c \notin ControlChars)

\* re.sub(r'\r\n', '\n', .) then re.sub(r'\r', '\n', .): every "\r" becomes
\* "\n", and the "\n" that followed it goes.
NormalizeLineBreaks(s) ==
    Kept([i \in 1..Len(s) |->
        IF s[i] = "\r" THEN "\n"
        ELSE IF s[i] = "\n" /\ i > 1 /\ s[i - 1] = "\r" THEN Dropped ELSE s[i]])

_clean_content(content) ==
    strip(NormalizeLineBreaks(RemoveControl(CollapseWhitespace(content))))

\* The chunks the splitter merges from single characters: chunk_size of them,
\* the next chunk starting chunk_overlap characters before the end of this one.
RECURSIVE Windows(_, _)
Windows(text, start) ==
    IF start + chunk_size - 1 >= Len(text) THEN <<SubSeq(text, start, Len(text))>>
    ELSE <<SubSeq(text, start, start + chunk_size - 1)>>
             \o Windows(text, start + chunk_size - chunk_overlap)

\* RecursiveCharacterTextSplitter.split_text. For a text no longer than
\* chunk_size the pieces it splits at a separator are merged back into one
\* chunk, which is the text itself. A longer text that holds none of the
\* separators is split into its characters and merged into overlapping
\* chunks (longer texts of the model hold no separator).
split_text(text) ==
    IF text = <<>> THEN <<>>
    ELSE IF Len(text) <= chunk_size THEN <<text>>
    ELSE Windows(text, 1)

\* r'^[A-Z][A-Z\s]+$' on a stripped line
IsAllCapsLine(line) ==
    /\ Len(line) >= 2
    /\ line[1] \in UpperCase
    /\ \A i \in 2..Len(line) : line[i] \in UpperCase \cup Whitespace

\* r'^[A-Z][a-z]+.*:$' on a stripped line
IsTitleColonLine(line) ==
    /\ Len(line) >= 3
    /\ line[1] \in UpperCase
    /\ line[2] \in LowerCase
    /\ line[Len(line)] = ":"

\* _extract_section calls match.group(1); the ALL-CAPS and the title-colon
\* patterns have no group, so a line matching one of them raises IndexError.
\* A cleaned chunk holds no line break: its only line is the chunk.
ExtractSectionRaises(chunk) ==
    LET line == strip(chunk)
    IN  line # <<>> /\ (IsAllCapsLine(line) \/ IsTitleColonLine(line))

\* "{doc_id}_chunk_{index}"; the prefix 0 stands for no doc id ("chunk_{i}").
ChunkId(doc_id, index) == <<doc_id, index>>

\* _create_chunk_metadata that takes the number of characters for the tokens
_create_chunk_metadata_char_tokens(chunk, chunk_index, total_chunks, doc_id) ==
    [chunk_id |-> ChunkId(doc_id, chunk_index),
     doc_id |-> doc_id,
     position |-> chunk_index,
     total_chunks |-> total_chunks,
     text |-> chunk,
     char_count |-> Len(chunk),
     estimated_tokens |-> Len(chunk)]

_create_chunk_metadata(chunk, chunk_index, total_chunks, doc_id) ==
    [chunk_id |-> ChunkId(doc_id, chunk_index),
     doc_id |-> doc_id,
     position |-> chunk_index,
     total_chunks |-> total_chunks,
     text |-> chunk,
     char_count |-> Len(chunk),
     estimated_tokens |-> Len(chunk) \div 4]

\* The outcome of chunk_document: it raises, or returns a list of chunks.
chunk_document(content, doc_id) ==
    IF content = <<>> \/ strip(content) = <<>>
    THEN [raised |-> FALSE, chunks |-> <<>>]
    ELSE LET texts == split_text(_clean_content(content))
         IN  IF \E i \in 1..Len(texts) : ExtractSectionRaises(texts[i])
             THEN [raised |-> TRUE, chunks |-> <<>>]
             ELSE [raised |-> FALSE,
                   chunks |-> [i \in 1..Len(texts) |->
                       _create_chunk_metadata(texts[i], i - 1, Len(texts), doc_id)]]

\* text.strip().endswith((".", "!", "?", "\n")) is false for a text that is
\* not empty: the chunk counts as a broken sentence.
IsBrokenSentence(text) ==
    /\ text # <<>>
    /\ LET stripped == strip(text)
       IN  ~(stripped # <<>> /\ stripped[Len(stripped)] \in {".", "!", "?", "\n"})

\* estimated_tokens > chunk_size * 1.2
IsOversized(chunk) == chunk.estimated_tokens * 10 > chunk_size * 12

\* estimated_tokens < chunk_size * 0.5
IsUndersized(chunk) == chunk.estimated_tokens * 2 < chunk_size

\* The statistics validate_chunks returns; an empty list gives only an error.
validate_chunks(chunks) ==
    IF chunks = <<>> THEN [error |-> "No chunks to validate"]
    ELSE LET oversized_chunks == Cardinality({i \in 1..Len(chunks) : IsOversized(chunks[i])})
             undersized_chunks ==
                 Cardinality({i \in 1..Len(chunks) : IsUndersized(chunks[i])})
             broken_sentences ==
                 Cardinality({i \in 1..Len(chunks) : IsBrokenSentence(chunks[i].text)})
         IN  [total_chunks |-> Len(chunks),
              oversized_chunks |-> oversized_chunks,
              undersized_chunks |-> undersized_chunks,
              broken_sentences |-> broken_sentences,
              chunk_size_compliance |-> oversized_chunks = 0,
              sentence_boundary_compliance |-> broken_sentences = 0,
              overall_quality |-> IF oversized_chunks = 0 /\ broken_sentences = 0
                                  THEN "good" ELSE "needs_improvement"]

\* ---------------------------------------------------------------- reranker
RerankProviders == {"cohere", "jina", "voyage", "bge"}
\* os.getenv("RERANKER_PROVIDER", "cohere"): the default
RERANKER_PROVIDER == "cohere"

\* dict.get(key, default)
Get(d, key, default) == IF key \in DOMAIN d THEN d[key] ELSE default

\* xs[:k] of a Python list
PySliceTo(xs, k) ==
    IF k >= 0
    THEN SubSeq(xs, 1, IF k < Len(xs) THEN k ELSE Len(xs))
    ELSE SubSeq(xs, 1, IF Len(xs) + k > 0 THEN Len(xs) + k ELSE 0)

\* str.lower()
LowerChar(c) ==
    IF c \in UpperCase THEN LowerLetters[CHOOSE i \in 1..26 : UpperLetters[i] = c] ELSE c
lower(s) == [i \in 1..Len(s) |-> LowerChar(s[i])]

\* difflib.SequenceMatcher.find_longest_match without junk: the longest
\* common block, the earliest in a and then the earliest in b; <<0,0,0>>
\* when the two share no character.
LongestMatch(a, b) ==
    LET blocks == {t \in (1..Len(a)) \X (1..Len(b)) \X (1..Len(a)) :
                      /\ t[1] + t[3] - 1 <= Len(a)
                      /\ t[2] + t[3] - 1 <= Len(b)
                      /\ \A d \in 0..(t[3] - 1) : a[t[1] + d] = b[t[2] + d]}
    IN  IF blocks = {} THEN <<0, 0, 0>>
        ELSE CHOOSE t \in blocks : \A o \in blocks :
                \/ t[3] > o[3]
                \/ t[3] = o[3] /\ t[1] < o[1]
                \/ t[3] = o[3] /\ t[1] = o[1] /\ t[2] <= o[2]

\* The number of matched characters over get_matching_blocks().
RECURSIVE Matches(_, _)
Matches(a, b) ==
    LET t == LongestMatch(a, b)
    IN  IF t[3] = 0 THEN 0
        ELSE t[3] + Matches(SubSeq(a, 1, t[1] - 1), SubSeq(b, 1, t[2] - 1))
                  + Matches(SubSeq(a, t[1] + t[3], Len(a)), SubSeq(b, t[2] + t[3], Len(b)))

\* SequenceMatcher(None, a, b).ratio() = 2.0 * M / T, 1.0 when T = 0, kept as
\* the fraction <<numerator, denominator>>.
Ratio(a, b) ==
    IF Len(a) + Len(b) = 0 THEN <<1, 1>> ELSE <<2 * Matches(a, b), Len(a) + Len(b)>>

\* The score fractions of the model all have a positive denominator.
ScoreLess(x, y) == x[1] * y[2] < y[1] * x[2]

\* list.sort(key=rerank_score, reverse=True): descending and stable.
RECURSIVE InsertByScore(_, _)
InsertByScore(sorted, doc) ==
    IF sorted = <<>> THEN <<doc>>
    ELSE IF ScoreLess(Head(sorted).rerank_score, doc.rerank_score)
         THEN <<doc>> \o sorted
         ELSE <<Head(sorted)>> \o InsertByScore(Tail(sorted), doc)

RECURSIVE SortByScoreDesc(_)
SortByScoreDesc(docs) ==
    IF docs = <<>> THEN <<>>
    ELSE InsertByScore(SortByScoreDesc(SubSeq(docs, 1, Len(docs) - 1)), docs[Len(docs)])

\* doc.copy() with rerank_score and rerank_provider set
Scored(doc, score, tag) ==
    [k \in DOMAIN doc \cup {"rerank_score", "rerank_provider"} |->
        IF k = "rerank_score" THEN score
        ELSE IF k = "rerank_provider" THEN tag ELSE doc[k]]

_fallback_rerank(query, documents, top_k) ==
    LET scored_docs == [i \in 1..Len(documents) |->
            Scored(documents[i],
                   Ratio(lower(query), lower(Get(documents[i], "text", <<>>))),
                   "fallback")]
    IN  PySliceTo(SortByScoreDesc(scored_docs), top_k)

\* What the remote call does: "no_key" (the credential is missing, raised
\* before the request), "network" (client.post raises), "http_error"
\* (raise_for_status raises), "bad_json" (response.json() raises, or its
\* value is no dict), or "payload": a dict that has a "results" list or has
\* none; an item of the list is [ok, index, relevance_score], ok = FALSE for
\* an item that lacks one of the two keys.
RemoteRaises(response) == response.kind # "payload"

\* The result loop of _rerank_<provider>: an outcome [raised, value].
RECURSIVE ProcessResults(_, _, _, _)
ProcessResults(items, documents, tag, acc) ==
    IF items = <<>> THEN [raised |-> FALSE, value |-> acc]
    ELSE LET item == Head(items)
         IN  IF ~item.ok THEN [raised |-> TRUE, value |-> <<>>]
             ELSE IF item.index < Len(documents)
                  THEN IF item.index < 0 - Len(documents)
                       THEN [raised |-> TRUE, value |-> <<>>]
                       ELSE LET at == IF item.index >= 0 THEN item.index + 1
                                      ELSE Len(documents) + item.index + 1
                            IN  ProcessResults(Tail(items), documents, tag,
                                    Append(acc, Scored(documents[at],
                                                       item.relevance_score, tag)))
                  ELSE ProcessResults(Tail(items), documents, tag, acc)

RerankRemote(tag, documents, top_k, response) ==
    IF RemoteRaises(response) THEN [raised |-> TRUE, value |-> <<>>]
    ELSE LET items == IF response.has_results THEN response.results ELSE <<>>
             r == ProcessResults(items, documents, tag, <<>>)
         IN  IF r.raised THEN r
             ELSE [raised |-> FALSE, value |-> PySliceTo(r.value, top_k)]

_rerank_cohere(documents, top_k, response) == RerankRemote("cohere", documents, top_k, response)
_rerank_jina(documents, top_k, response) == RerankRemote("jina", documents, top_k, response)
_rerank_voyage(documents, top_k, response) == RerankRemote("voyage", documents, top_k, response)
_rerank_bge(documents, top_k, response) == RerankRemote("bge", documents, top_k, response)

rerank(provider, query, documents, top_k, response) ==
    IF documents = <<>> \/ query = <<>> THEN <<>>
    ELSE LET r == IF provider = "cohere" THEN _rerank_cohere(documents, top_k, response)
                  ELSE IF provider = "jina" THEN _rerank_jina(documents, top_k, response)
                  ELSE IF provider = "voyage" THEN _rerank_voyage(documents, top_k, response)
                  ELSE IF provider = "bge" THEN _rerank_bge(documents, top_k, response)
                  ELSE [raised |-> TRUE, value |-> <<>>]
         IN  IF r.raised THEN _fallback_rerank(query, documents, top_k) ELSE r.value

\* --------------------------------------------------------- citation engine
Digits == {"0", "1", "2", "3", "4", "5", "6", "7", "8", "9"}
SentenceEnds == {".", "!", "?"}

DigitChar(d) == <<"0", "1", "2", "3", "4", "5", "6", "7", "8", "9">>[d + 1]

\* str(n) for n >= 0
RECURSIVE IntToText(_)
IntToText(n) == IF n < 10 THEN <<DigitChar(n)>> ELSE IntToText(n \div 10) \o <<DigitChar(n % 10)>>

\* needle in haystack
Contains(haystack, needle) ==
    \E i \in 1..(Len(haystack) - Len(needle) + 1) :
        SubSeq(haystack, i, i + Len(needle) - 1) = needle

citation_keywords ==
    {<<"a", "c", "c", "o", "r", "d", "i", "n", "g", " ", "t", "o">>,
     <<"s", "t", "a", "t", "e", "s">>,
     <<"i", "n", "d", "i", "c", "a", "t", "e", "s">>,
     <<"s", "h", "o", "w", "s">>,
     <<"r", "e", "v", "e", "a", "l", "s">>,
     <<"d", "e", "m", "o", "n", "s", "t", "r", "a", "t", "e", "s">>,
     <<"c", "o", "n", "f", "i", "r", "m", "s">>,
     <<"s", "u", "g", "g", "e", "s", "t", "s">>,
     <<"i", "m", "p", "l", "i", "e", "s">>,
     <<"b", "a", "s", "e", "d", " ", "o", "n">>,
     <<"a", "s", " ", "m", "e", "n", "t", "i", "o", "n", "e", "d">>,
     <<"a", "s", " ", "s", "t", "a", "t", "e", "d">>,
     <<"t", "h", "e", " ", "d", "o", "c", "u", "m", "e", "n", "t">>,
     <<"t", "h", "e", " ", "s", "o", "u", "r", "c", "e">>,
     <<"r", "e", "s", "e", "a", "r", "c", "h">>,
     <<"s", "t", "u", "d", "y">>,
     <<"d", "a", "t", "a">>,
     <<"e", "v", "i", "d", "e", "n", "c", "e">>,
     <<"f", "i", "n", "d", "i", "n", "g", "s">>}

\* re.split(r'[.!?]+', text): the fragments between the runs, the empty
\* leading and trailing ones included.
RECURSIVE SplitFragments(_, _)
SplitFragments(text, current) ==
    IF text = <<>> THEN <<current>>
    ELSE IF Head(text) \in SentenceEnds
         THEN IF Len(text) >= 2 /\ text[2] \in SentenceEnds
              THEN SplitFragments(Tail(text), current)
              ELSE <<current>> \o SplitFragments(Tail(text), <<>>)
         ELSE SplitFragments(Tail(text), Append(current, Head(text)))

RECURSIVE StripNonEmpty(_)
StripNonEmpty(fragments) ==
    IF fragments = <<>> THEN <<>>
    ELSE IF strip(Head(fragments)) = <<>> THEN StripNonEmpty(Tail(fragments))
         ELSE <<strip(Head(fragments))>> \o StripNonEmpty(Tail(fragments))

_split_into_sentences(text) == StripNonEmpty(SplitFragments(text, <<>>))

\* _should_cite_sentence that cites the first sentence only
_should_cite_first_sentence_only(sentence, sentence_index) == sentence_index = 0

_should_cite_sentence(sentence, sentence_index) ==
    \/ sentence_index = 0
    \/ \E keyword \in citation_keywords : Contains(lower(sentence), keyword)
    \/ \E i \in 1..Len(sentence) : sentence[i] \in Digits
    \/ sentence_index % 3 = 0

\* " ".join(parts)
RECURSIVE JoinSpace(_)
JoinSpace(parts) ==
    IF parts = <<>> THEN <<>>
    ELSE IF Len(parts) = 1 THEN parts[1]
         ELSE parts[1] \o <<" ">> \o JoinSpace(Tail(parts))

\* The loop of _insert_citations from sentence i (1-based) on, with
\* citation_count citations used so far.
RECURSIVE CiteSentences(_, _, _, _)
CiteSentences(sentences, i, citation_count, n_citations) ==
    IF i > Len(sentences) THEN <<>>
    ELSE IF _should_cite_sentence(sentences[i], i - 1) /\ citation_count < n_citations
         THEN << sentences[i] \o <<" ", "[">> \o IntToText(citation_count + 1) \o <<"]">> >>
              \o CiteSentences(sentences, i + 1, citation_count + 1, n_citations)
         ELSE <<sentences[i]>> \o CiteSentences(sentences, i + 1, citation_count, n_citations)

\* _insert_citations that appends the first marker to the answer as it is
_insert_citations_keeping_answer(answer, citations) ==
    IF citations = <<>> THEN answer ELSE answer \o <<" ", "[", "1", "]">>

_insert_citations(answer, citations) ==
    IF citations = <<>> THEN answer
    ELSE JoinSpace(CiteSentences(_split_into_sentences(answer), 1, 0, Len(citations)))

\* Citation(id, text, source, title, section, position, chunk_id, score) of
\* the i-th (1-based) source chunk; every field is read from the top level of
\* the chunk dict.
MakeCitation(chunk, i) ==
    [id |-> i,
     text |-> Get(chunk, "text", <<>>),
     source |-> Get(chunk, "source", "Unknown Source"),
     title |-> Get(chunk, "title", "Untitled Document"),
     section |-> Get(chunk, "section", <<"Section", i>>),
     position |-> Get(chunk, "citation_position", <<"Chunk", i>>),
     chunk_id |-> Get(chunk, "chunk_id", ChunkId(0, i - 1)),
     score |-> Get(chunk, "rerank_score", Get(chunk, "score", <<0, 1>>))]

\* _create_citations with the slice [:max_citations] left out
_create_citations_uncapped(source_chunks) ==
    [i \in 1..Len(source_chunks) |-> MakeCitation(source_chunks[i], i)]

_create_citations(source_chunks) ==
    LET n == IF Len(source_chunks) < max_citations THEN Len(source_chunks) ELSE max_citations
    IN  [i \in 1..n |-> MakeCitation(source_chunks[i], i)]

\* (answer_with_citations, citations)
add_citations_to_answer(answer, source_chunks) ==
    IF source_chunks = <<>> THEN << answer, <<>> >>
    ELSE LET citations == _create_citations(source_chunks)
         IN  <<_insert_citations(answer, citations), citations>>

\* int(match) of a run of digits
DigitValue(c) == CHOOSE d \in 0..9 : DigitChar(d) = c

RECURSIVE TextToInt(_)
TextToInt(digits) ==
    IF digits = <<>> THEN 0
    ELSE 10 * TextToInt(SubSeq(digits, 1, Len(digits) - 1)) + DigitValue(digits[Len(digits)])

\* The length of the run of digits that starts at position i of text.
RECURSIVE DigitRun(_, _)
DigitRun(text, i) ==
    IF i <= Len(text) /\ text[i] \in Digits THEN 1 + DigitRun(text, i + 1) ELSE 0

\* re.findall(r'\[(\d+)\]', text) from position i on, each match as an int:
\* the matches are taken left to right and do not overlap.
RECURSIVE FindCitationIds(_, _)
FindCitationIds(text, i) ==
    IF i > Len(text) THEN <<>>
    ELSE LET n == DigitRun(text, i + 1)
         IN  IF text[i] = "[" /\ n > 0 /\ i + n + 1 <= Len(text) /\ text[i + n + 1] = "]"
             THEN <<TextToInt(SubSeq(text, i + 1, i + n))>> \o FindCitationIds(text, i + n + 2)
             ELSE FindCitationIds(text, i + 1)

extract_citations_from_text(text) == FindCitationIds(text, 1)

\* [x for x in xs if x not in ys]
RECURSIVE NotIn(_, _)
NotIn(xs, ys) ==
    IF xs = <<>> THEN <<>>
    ELSE IF \E j \in 1..Len(ys) : ys[j] = Head(xs)
         THEN NotIn(Tail(xs), ys)
         ELSE <<Head(xs)>> \o NotIn(Tail(xs), ys)

\* citation_coverage is kept as the fraction <<numerator, denominator>>.
validate_citations(answer, citations) ==
    LET citation_ids_in_text == extract_citations_from_text(answer)
        available_citation_ids == [i \in 1..Len(citations) |-> citations[i].id]
        missing_citations == NotIn(citation_ids_in_text, available_citation_ids)
        unused_citations == NotIn(available_citation_ids, citation_ids_in_text)
    IN  [total_citations |-> Len(citations),
         citations_in_text |-> Len(citation_ids_in_text),
         missing_citations |-> missing_citations,
         unused_citations |-> unused_citations,
         citation_coverage |-> IF citations # <<>>
                               THEN <<Len(citation_ids_in_text), Len(citations)>>
                               ELSE <<0, 1>>,
         is_valid |-> Len(missing_citations) = 0]

\* ------------------------------------------------------------ orchestrator
VARIABLES
    running,          \* the task that holds the event loop, or NoTask
    up,               \* per upload request: its position and locals
    qu,               \* per query request: its position and locals
    documents,        \* DocuMindAPIService.documents: doc_id -> document data
    document_chunks,  \* DocuMindAPIService.document_chunks: doc_id -> chunks
    index,            \* the vectors stored in the cloud vector database
    embedding_sem,    \* free permits of embedding_semaphore
    llm_sem,          \* free permits of llm_semaphore
    vector_provider,  \* CloudVectorDB.provider
    reranker,         \* DocuMindRerankerService: [provider, api_key]
    lastRead,         \* the response of the list_documents / get_document_info
                      \* call that has just returned, NoRead otherwise
    rr,               \* a direct call of rerank: its inputs and its result
    ce,               \* a direct call of the citation engine, likewise
    ck,               \* a direct call of the chunker, likewise
    lim               \* direct calls of the embedder or of the generator by
                      \* several tasks at once: each task's position

vars == <<running, up, qu, documents, document_chunks, index, embedding_sem,
          llm_sem, vector_provider, reranker, lastRead, rr, ce, ck, lim>>

VectorProviders == {"pinecone", "weaviate", "qdrant", "supabase"}

\* The providers the service is run with: one that applies the metadata
\* filter and stores the whole metadata dict, and one that does neither
\* (qdrant is stored and searched as pinecone is, supabase as weaviate).
ConfiguredProviders == {"pinecone", "weaviate"}

\* The texts a caller uploads.
Contents == {<<>>, <<" ">>, <<"a", "b">>, <<"A", "B">>}

\* How one upstream embedding attempt ends.
EmbedOutcomes == {"ok", "rate_limit", "error"}

NoRead == [op |-> "none", docs |-> {}]

UploadIdle ==
    [pc |-> "idle", content |-> <<>>, chunks |-> <<>>, attempt |-> 0,
     holds_permit |-> FALSE, called |-> {},
     result |-> [success |-> FALSE, error |-> "none", document_id |-> 0, chunks_created |-> 0]]

UploadFailure(error) ==
    [success |-> FALSE, error |-> error, document_id |-> 0, chunks_created |-> 0]

\* The ingest stage of the document that upload d generated.
Stage(d) ==
    CASE up[d].pc = "idle" -> "NONE"
      [] up[d].pc = "chunk" -> "UPLOADED"
      [] up[d].pc \in {"embed", "embed_wait", "embed_sleep"} -> "CHUNKED"
      [] up[d].pc = "upsert" -> "EMBEDDED"
      [] up[d].pc = "done" /\ up[d].result.success -> "INDEXED"
      [] OTHER -> "FAILED"

\* A retry loop that sleeps and tries again after any failure.
gemini_embed_attempt_retry_any(attempt, outcome) ==
    IF outcome = "ok" THEN "ok"
    ELSE IF attempt < MAX_RETRIES - 1 THEN "sleep"
         ELSE "raise"

\* One pass of the retry loop of gemini_embed / gemini_embed_query, given how
\* the upstream call of this attempt ended: the call returns ("ok"), sleeps
\* before the next attempt ("sleep"), or raises ("raise").
gemini_embed_attempt(attempt, outcome) ==
    IF outcome = "ok" THEN "ok"
    ELSE IF outcome = "rate_limit" /\ attempt < MAX_RETRIES - 1 THEN "sleep"
         ELSE "raise"

\* upload_document, lines 56-68: a fresh doc id, the document record stored.
upload_start(u) ==
    /\ running = NoTask
    /\ up[u].pc = "idle"
    /\ \E content \in Contents :
        /\ up' = [up EXCEPT ![u].pc = "chunk", ![u].content = content]
        /\ documents' = [d \in DOMAIN documents \cup {u} |->
                IF d = u THEN [id |-> u, content |-> content, char_count |-> Len(content)]
                ELSE documents[d]]
    /\ running' = UTask(u)
    /\ UNCHANGED <<qu, document_chunks, index, embedding_sem, llm_sem,
                   vector_provider, reranker, rr, ce, ck, lim>>
    /\ lastRead' = NoRead

\* upload_document, lines 70-86: chunk; no chunks or an exception end the
\* upload with a failure response; else the chunks are stored.
upload_chunk(u) ==
    /\ running = UTask(u)
    /\ up[u].pc = "chunk"
    /\ LET r == chunk_document(up[u].content, u)
       IN  IF r.raised
           THEN /\ up' = [up EXCEPT ![u].pc = "done",
                                    ![u].result = UploadFailure("chunking raised")]
                /\ running' = NoTask
                /\ UNCHANGED document_chunks
           ELSE IF r.chunks = <<>>
           THEN /\ up' = [up EXCEPT ![u].pc = "done",
                            ![u].result = UploadFailure("Failed to create chunks from document")]
                /\ running' = NoTask
                /\ UNCHANGED document_chunks
           ELSE /\ up' = [up EXCEPT ![u].pc = "embed", ![u].chunks = r.chunks]
                /\ document_chunks' = [d \in DOMAIN document_chunks \cup {u} |->
                        IF d = u THEN r.chunks ELSE document_chunks[d]]
                /\ running' = UTask(u)
    /\ UNCHANGED <<qu, documents, index, embedding_sem, llm_sem,
                   vector_provider, reranker, rr, ce, ck, lim>>
    /\ lastRead' = NoRead

\* upload_document, line 91, gemini_embed: the permit is taken on entry (the
\* task waits off the loop while none is free), each attempt ends one of the
\* three ways, a rate-limited attempt sleeps off the loop, and the permit is
\* given back when the call returns or raises.
upload_embed(u) ==
    /\ \/ up[u].pc = "embed" /\ running = UTask(u)
       \/ up[u].pc = "embed_sleep" /\ running = NoTask
       \/ up[u].pc = "embed_wait" /\ running = NoTask /\ embedding_sem > 0
    /\ IF ~up[u].holds_permit /\ embedding_sem = 0
       THEN /\ up' = [up EXCEPT ![u].pc = "embed_wait"]
            /\ running' = NoTask
            /\ UNCHANGED embedding_sem
       ELSE \E outcome \in EmbedOutcomes :
            LET held == IF up[u].holds_permit THEN embedding_sem ELSE embedding_sem - 1
                step == gemini_embed_attempt(up[u].attempt, outcome)
                called == up[u].called \cup {"embedder"}
            IN  CASE step = "ok" ->
                        /\ up' = [up EXCEPT ![u].pc = "upsert", ![u].holds_permit = FALSE,
                                            ![u].called = called]
                        /\ embedding_sem' = held + 1
                        /\ running' = UTask(u)
                  [] step = "sleep" ->
                        /\ up' = [up EXCEPT ![u].pc = "embed_sleep",
                                            ![u].attempt = up[u].attempt + 1,
                                            ![u].holds_permit = TRUE,
                                            ![u].called = called]
                        /\ embedding_sem' = held
                        /\ running' = NoTask
                  [] step = "raise" ->
                        /\ up' = [up EXCEPT ![u].pc = "done", ![u].holds_permit = FALSE,
                                            ![u].called = called,
                                            ![u].result = UploadFailure("embedding raised")]
                        /\ embedding_sem' = held + 1
                        /\ running' = NoTask
    /\ UNCHANGED <<qu, documents, document_chunks, index, llm_sem,
                   vector_provider, reranker, rr, ce, ck, lim>>
    /\ lastRead' = NoRead

\* The vector of one chunk as the provider stores it: pinecone and qdrant
\* keep the whole metadata dict, weaviate and supabase keep the fields of
\* their schema, which has no chunk_id.
StoredVector(provider, chunk) ==
    IF provider \in {"pinecone", "qdrant"}
    THEN [doc_id |-> chunk.doc_id, chunk_id |-> chunk.chunk_id,
          position |-> chunk.position, text |-> chunk.text]
    ELSE [doc_id |-> chunk.doc_id, position |-> chunk.position, text |-> chunk.text]

\* How many of n vectors a failing upsert has stored: weaviate creates the
\* objects one at a time, the others send one batch (n <= 100) or one insert.
StoredOnFailure(provider, n) == IF provider = "weaviate" THEN 0..(n - 1) ELSE {0}

\* upsert_vectors that reports success whatever was stored
upsert_vectors_always_true(provider, chunks, stored) ==
    [success |-> TRUE,
     vectors |-> {StoredVector(provider, chunks[i]) : i \in 1..stored}]

\* upsert_vectors: TRUE with every vector stored, or FALSE (every exception
\* is caught) with the vectors stored so far.
upsert_vectors(provider, chunks, stored) ==
    [success |-> stored = Len(chunks),
     vectors |-> {StoredVector(provider, chunks[i]) : i \in 1..stored}]

\* upload_document, lines 93-130: upsert, then the response.
upload_upsert(u) ==
    /\ running = UTask(u)
    /\ up[u].pc = "upsert"
    /\ \E stored \in {Len(up[u].chunks)} \cup StoredOnFailure(vector_provider, Len(up[u].chunks)) :
        LET r == upsert_vectors(vector_provider, up[u].chunks, stored)
        IN  /\ index' = index \cup r.vectors
            /\ up' = [up EXCEPT ![u].pc = "done",
                        ![u].called = up[u].called \cup {"index"},
                        ![u].result =
                            IF r.success
                            THEN [success |-> TRUE, error |-> "none", document_id |-> u,
                                  chunks_created |-> Len(up[u].chunks)]
                            ELSE UploadFailure("Failed to store vectors in database")]
    /\ running' = NoTask
    /\ UNCHANGED <<qu, documents, document_chunks, embedding_sem, llm_sem,
                   vector_provider, reranker, rr, ce, ck, lim>>
    /\ lastRead' = NoRead

\* routes.delete_document: the id must be known; its record and its chunks
\* are removed from memory (the vector database is not touched).
delete_document(d) ==
    /\ running = NoTask
    /\ d \in DOMAIN documents
    /\ documents' = [x \in DOMAIN documents \ {d} |-> documents[x]]
    /\ document_chunks' = [x \in DOMAIN document_chunks \ {d} |-> document_chunks[x]]
    /\ lastRead' = NoRead
    /\ UNCHANGED <<running, up, qu, index, embedding_sem, llm_sem,
                   vector_provider, reranker, rr, ce, ck, lim>>

\* list_documents: every document of the table with its number of chunks.
\* Each entry also notes the ingest stage the document is in at that moment.
list_documents ==
    /\ running = NoTask
    /\ lastRead' = [op |-> "list_documents",
                    docs |-> {[id |-> d,
                               chunks_count |-> IF d \in DOMAIN document_chunks
                                                THEN Len(document_chunks[d]) ELSE 0,
                               stage |-> Stage(d)] : d \in DOMAIN documents}]
    /\ UNCHANGED <<running, up, qu, documents, document_chunks, index, embedding_sem,
                   llm_sem, vector_provider, reranker, rr, ce, ck, lim>>

\* get_document_info: None for an unknown id, else the document's data.
get_document_info(d) ==
    /\ running = NoTask
    /\ lastRead' = [op |-> "get_document_info",
                    docs |-> IF d \in DOMAIN documents
                             THEN {[id |-> d,
                                    chunks_count |-> IF d \in DOMAIN document_chunks
                                                     THEN Len(document_chunks[d]) ELSE 0,
                                    stage |-> Stage(d)]}
                             ELSE {}]
    /\ UNCHANGED <<running, up, qu, documents, document_chunks, index, embedding_sem,
                   llm_sem, vector_provider, reranker, rr, ce, ck, lim>>

\* ------------------------------------------------------------- query path
MaxTopK == 2
MaxItems == 2

Questions == {<<>>, <<"a">>}
\* The top_k of a query (rerank on its own is run over every top_k).
TopKs == {MaxTopK}

\* The answer the generator writes: two sentences, the second with a number.
Answers == {<<"a", ".", " ", "b", "1", ".">>}

NoInformationAnswer ==
    <<"I", " ", "c", "o", "u", "l", "d", "n", "'", "t", " ", "f", "i", "n",
      "d", " ", "r", "e", "l", "e", "v", "a", "n", "t", " ", "i", "n", "f",
      "o", "r", "m", "a", "t", "i", "o", "n", " ", "t", "o", " ", "a", "n",
      "s", "w", "e", "r", " ", "y", "o", "u", "r", " ", "q", "u", "e", "s",
      "t", "i", "o", "n", " ", "i", "n", " ", "t", "h", "e", " ", "d", "o",
      "c", "u", "m", "e", "n", "t", ".">>

CouldNotGenerateAnswer ==
    <<"C", "o", "u", "l", "d", " ", "n", "o", "t", " ", "g", "e", "n", "e",
      "r", "a", "t", "e", " ", "a", "n", " ", "a", "n", "s", "w", "e", "r",
      " ", "f", "r", "o", "m", " ", "t", "h", "e", " ", "m", "o", "d", "e",
      "l", ".">>

\* f"Error generating response: {str(e)}", the text of e left out
ErrorGeneratingAnswer ==
    <<"E", "r", "r", "o", "r", " ", "g", "e", "n", "e", "r", "a", "t", "i",
      "n", "g", " ", "r", "e", "s", "p", "o", "n", "s", "e", ":", " ">>

\* The relevance scores a remote reranker gives, as fractions.
RelevanceScores == {<<1, 2>>, <<9, 10>>}

\* The items of a remote "results" list for n documents: an index in range,
\* the index n (out of range), a negative index Python accepts, a negative
\* index it rejects, or an item that lacks a key.
RemoteItems(n) ==
    {[ok |-> TRUE, index |-> i, relevance_score |-> sc] :
        i \in (0..n) \cup {0 - 1, 0 - n - 1}, sc \in RelevanceScores}
    \cup {[ok |-> FALSE, index |-> 0, relevance_score |-> <<0, 1>>]}

RECURSIVE Orderings(_)
Orderings(S) ==
    IF S = {} THEN {<<>>}
    ELSE UNION {{<<x>> \o rest : rest \in Orderings(S \ {x})} : x \in S}

RECURSIVE SeqsUpTo(_, _)
SeqsUpTo(S, n) ==
    IF n = 0 THEN {<<>>}
    ELSE LET shorter == SeqsUpTo(S, n - 1)
         IN  shorter \cup {Append(x, e) : x \in {y \in shorter : Len(y) = n - 1}, e \in S}

\* What the remote endpoint answers once the request was sent.
RemoteResponses(n) ==
    {[kind |-> k, has_results |-> FALSE, results |-> <<>>] :
        k \in {"network", "http_error", "bad_json", "payload"}}
    \cup {[kind |-> "payload", has_results |-> TRUE, results |-> items] :
            items \in SeqsUpTo(RemoteItems(n), MaxItems)}

\* The responses the query path is run against: the failures, a payload
\* without "results", and the answers of a provider that works as its API
\* says: the min(top_k, n) best documents, each once, best first. (rerank on
\* its own is run against every response of RemoteResponses.)
SortedScores == <<<<9, 10>>, <<1, 2>>, <<1, 10>>>>

ProviderAnswers(n, top_k) ==
    LET k == IF top_k < n THEN top_k ELSE n
    IN  {[i \in 1..k |-> [ok |-> TRUE, index |-> o[i] - 1,
                          relevance_score |-> SortedScores[IF i < 3 THEN i ELSE 3]]] :
            o \in Orderings(1..n)}

QueryResponses(n, top_k) ==
    {[kind |-> k, has_results |-> FALSE, results |-> <<>>] :
        k \in {"network", "http_error", "bad_json", "payload"}}
    \cup {[kind |-> "payload", has_results |-> TRUE, results |-> items] :
            items \in ProviderAnswers(n, top_k)}

\* The credential is missing: _rerank_<provider> raises before any request.
NoKeyResponse == [kind |-> "no_key", has_results |-> FALSE, results |-> <<>>]

\* A failure of the remote call: an exception, or a payload that is not the
\* provider's (no "results" list, an item without its keys, an index that no
\* document has).
RemoteFailed(response, n) ==
    \/ RemoteRaises(response)
    \/ ~response.has_results
    \/ \E i \in 1..Len(response.results) :
            \/ ~response.results[i].ok
            \/ response.results[i].index >= n
            \/ response.results[i].index < 0

QueryIdle ==
    [pc |-> "idle", document_id |-> 0, question |-> <<>>, top_k |-> 0, attempt |-> 0,
     holds_permit |-> FALSE, search_results |-> <<>>, reranked |-> <<>>,
     answer |-> <<>>, citations |-> <<>>, called |-> {}, failed |-> {},
     result |-> [success |-> FALSE, error |-> "none", answer |-> <<>>, citations |-> <<>>]]

QueryFailure(error) ==
    [success |-> FALSE, error |-> error, answer |-> <<>>, citations |-> <<>>]

\* query_document without its lookup at lines 157-161: the request goes on
\* to EMBED_QUERY whether or not the id is in the documents table.
query_start_without_lookup(q) ==
    /\ running = NoTask
    /\ qu[q].pc = "idle"
    /\ \E d \in DocIds, question \in Questions, top_k \in TopKs :
        qu' = [qu EXCEPT ![q].pc = "embed", ![q].document_id = d,
                         ![q].question = question, ![q].top_k = top_k]
    /\ running' = QTask(q)
    /\ UNCHANGED <<up, documents, document_chunks, index, embedding_sem, llm_sem,
                   vector_provider, reranker, rr, ce, ck, lim>>
    /\ lastRead' = NoRead

\* query_document, lines 156-163: the document lookup.
query_start(q) ==
    /\ running = NoTask
    /\ qu[q].pc = "idle"
    /\ \E d \in DocIds, question \in Questions, top_k \in TopKs :
        IF d \notin DOMAIN documents
        THEN /\ qu' = [qu EXCEPT ![q].pc = "done", ![q].document_id = d,
                                 ![q].question = question, ![q].top_k = top_k,
                                 ![q].result = QueryFailure("Document not found")]
             /\ running' = QTask(q)
        ELSE /\ qu' = [qu EXCEPT ![q].pc = "embed", ![q].document_id = d,
                                 ![q].question = question, ![q].top_k = top_k]
             /\ running' = QTask(q)
    /\ UNCHANGED <<up, documents, document_chunks, index, embedding_sem, llm_sem,
                   vector_provider, reranker, rr, ce, ck, lim>>
    /\ lastRead' = NoRead

\* query_document, line 167, gemini_embed_query (EMBED_QUERY): as
\* gemini_embed; an exception reaches the handler of query_document.
query_embed(q) ==
    /\ \/ qu[q].pc = "embed" /\ running = QTask(q)
       \/ qu[q].pc = "embed_sleep" /\ running = NoTask
       \/ qu[q].pc = "embed_wait" /\ running = NoTask /\ embedding_sem > 0
    /\ IF ~qu[q].holds_permit /\ embedding_sem = 0
       THEN /\ qu' = [qu EXCEPT ![q].pc = "embed_wait"]
            /\ running' = NoTask
            /\ UNCHANGED embedding_sem
       ELSE \E outcome \in EmbedOutcomes :
            LET held == IF qu[q].holds_permit THEN embedding_sem ELSE embedding_sem - 1
                step == gemini_embed_attempt(qu[q].attempt, outcome)
                called == qu[q].called \cup {"embedder"}
            IN  CASE step = "ok" ->
                        /\ qu' = [qu EXCEPT ![q].pc = "search", ![q].holds_permit = FALSE,
                                            ![q].attempt = 0, ![q].called = called]
                        /\ embedding_sem' = held + 1
                        /\ running' = QTask(q)
                  [] step = "sleep" ->
                        /\ qu' = [qu EXCEPT ![q].pc = "embed_sleep",
                                            ![q].attempt = qu[q].attempt + 1,
                                            ![q].holds_permit = TRUE, ![q].called = called]
                        /\ embedding_sem' = held
                        /\ running' = NoTask
                  [] step = "raise" ->
                        /\ qu' = [qu EXCEPT ![q].pc = "done", ![q].holds_permit = FALSE,
                                            ![q].called = called,
                                            ![q].failed = qu[q].failed \cup {"EMBED_QUERY"},
                                            ![q].result = QueryFailure("embedding raised")]
                        /\ embedding_sem' = held + 1
                        /\ running' = QTask(q)
    /\ UNCHANGED <<up, documents, document_chunks, index, llm_sem,
                   vector_provider, reranker, rr, ce, ck, lim>>
    /\ lastRead' = NoRead

\* Whether the provider's search applies filter_metadata: _search_pinecone
\* and _search_qdrant pass it on, _search_weaviate and _search_supabase do
\* not use it.
AppliesFilter(provider) == provider \in {"pinecone", "qdrant"}

\* One search result as _search_<provider> builds it from a stored vector;
\* rank (1-based) of n gives its similarity score.
SearchResult(v, rank, n) ==
    [id |-> <<v.doc_id, v.position>>,
     score |-> <<n - rank + 1, n + 1>>,
     text |-> v.text,
     metadata |-> v]

\* search_vectors: the lists the database may return for the query, nearest
\* first: the top_k nearest of the vectors the filter admits, in some order
\* of similarity.
search_vectors(provider, stored, top_k, doc_id) ==
    LET eligible == IF AppliesFilter(provider)
                    THEN {v \in stored : v.doc_id = doc_id} ELSE stored
        n == IF top_k < Cardinality(eligible) THEN top_k ELSE Cardinality(eligible)
    IN  {[i \in 1..n |-> SearchResult(o[i], i, n)] : o \in Orderings(eligible)}

\* query_document without the test of lines 177-187: an empty result list
\* goes on to RERANK like any other.
query_search_without_shortcut(q) ==
    /\ running = QTask(q)
    /\ qu[q].pc = "search"
    /\ \E raised \in BOOLEAN :
       \E results \in IF raised THEN {<<>>}
                      ELSE search_vectors(vector_provider, index, qu[q].top_k * 2,
                                          qu[q].document_id) :
        qu' = [qu EXCEPT ![q].pc = "rerank",
                         ![q].called = qu[q].called \cup {"index"},
                         ![q].failed = IF raised THEN qu[q].failed \cup {"SEARCH"}
                                       ELSE qu[q].failed,
                         ![q].search_results = results]
    /\ running' = QTask(q)
    /\ UNCHANGED <<up, documents, document_chunks, index, embedding_sem, llm_sem,
                   vector_provider, reranker, rr, ce, ck, lim>>
    /\ lastRead' = NoRead

\* query_document, lines 171-187 (SEARCH): a search that raises returns []
\* like a search that finds nothing; no result ends the query with the
\* canned answer.
query_search(q) ==
    /\ running = QTask(q)
    /\ qu[q].pc = "search"
    /\ \E raised \in BOOLEAN :
       \E results \in IF raised THEN {<<>>}
                      ELSE search_vectors(vector_provider, index, qu[q].top_k * 2,
                                          qu[q].document_id) :
        LET called == qu[q].called \cup {"index"}
            failed == IF raised THEN qu[q].failed \cup {"SEARCH"} ELSE qu[q].failed
        IN  IF results = <<>>
            THEN /\ qu' = [qu EXCEPT ![q].pc = "done", ![q].called = called,
                                     ![q].failed = failed,
                                     ![q].result = [success |-> TRUE, error |-> "none",
                                                    answer |-> NoInformationAnswer,
                                                    citations |-> <<>>]]
                 /\ running' = QTask(q)
            ELSE /\ qu' = [qu EXCEPT ![q].pc = "rerank", ![q].called = called,
                                     ![q].failed = failed, ![q].search_results = results]
                 /\ running' = QTask(q)
    /\ UNCHANGED <<up, documents, document_chunks, index, embedding_sem, llm_sem,
                   vector_provider, reranker, rr, ce, ck, lim>>
    /\ lastRead' = NoRead

\* query_document, lines 191-195 (RERANK), up to the point where rerank
\* suspends: no document or no query returns [] at once, a missing
\* credential raises before any request and is answered by the fallback, and
\* otherwise the task awaits the provider's response off the loop.
query_rerank(q) ==
    /\ running = QTask(q)
    /\ qu[q].pc = "rerank"
    /\ LET called == qu[q].called \cup {"reranker"}
       IN  IF qu[q].search_results = <<>> \/ qu[q].question = <<>> \/ ~reranker.api_key
           THEN /\ qu' = [qu EXCEPT ![q].pc = "generate", ![q].called = called,
                            ![q].failed = IF qu[q].search_results # <<>> /\ qu[q].question # <<>>
                                          THEN qu[q].failed \cup {"RERANK"} ELSE qu[q].failed,
                            ![q].reranked = rerank(reranker.provider, qu[q].question,
                                                   qu[q].search_results, qu[q].top_k,
                                                   NoKeyResponse)]
                /\ running' = QTask(q)
           ELSE /\ qu' = [qu EXCEPT ![q].pc = "rerank_wait", ![q].called = called]
                /\ running' = NoTask
    /\ UNCHANGED <<up, documents, document_chunks, index, embedding_sem, llm_sem,
                   vector_provider, reranker, rr, ce, ck, lim>>
    /\ lastRead' = NoRead

\* rerank resumes with the provider's response.
query_rerank_return(q) ==
    /\ running = NoTask
    /\ qu[q].pc = "rerank_wait"
    /\ \E response \in QueryResponses(Len(qu[q].search_results), qu[q].top_k) :
        qu' = [qu EXCEPT ![q].pc = "generate",
                 ![q].failed = IF RemoteFailed(response, Len(qu[q].search_results))
                               THEN qu[q].failed \cup {"RERANK"} ELSE qu[q].failed,
                 ![q].reranked = rerank(reranker.provider, qu[q].question,
                                        qu[q].search_results, qu[q].top_k, response)]
    /\ running' = QTask(q)
    /\ UNCHANGED <<up, documents, document_chunks, index, embedding_sem, llm_sem,
                   vector_provider, reranker, rr, ce, ck, lim>>
    /\ lastRead' = NoRead

\* How model.generate_content of gemini_chat ends.
GeminiOutcomes == {"ok", "empty", "error"}
\* How one chat.completions.create of openai_chat ends.
OpenAIOutcomes == {"ok", "empty", "rate_limit", "error"}

\* One pass of the retry loop of openai_chat: it returns the answer, returns
\* the could-not-generate text, sleeps before the next attempt, or returns
\* the error text (no exception leaves openai_chat).
openai_chat_attempt(attempt, outcome) ==
    IF outcome \in {"ok", "empty"} THEN outcome
    ELSE IF outcome = "rate_limit" /\ attempt < MAX_RETRIES - 1 THEN "sleep"
         ELSE "error_text"

\* query_document, lines 198-200 (GENERATE), _generate_answer_with_context
\* and gemini_chat: the Gemini call blocks the loop; when it raises,
\* openai_chat takes a permit of llm_semaphore and awaits the answer off the
\* loop.
query_generate(q) ==
    /\ \/ qu[q].pc = "generate" /\ running = QTask(q)
       \/ qu[q].pc = "llm_wait" /\ running = NoTask /\ llm_sem > 0
    /\ \E outcome \in IF qu[q].pc = "generate" THEN GeminiOutcomes ELSE {"error"} :
       \E answer \in Answers :
        LET called == qu[q].called \cup {"generator"}
        IN  IF outcome = "error"
            THEN IF llm_sem = 0
                 THEN /\ qu' = [qu EXCEPT ![q].pc = "llm_wait", ![q].called = called]
                      /\ UNCHANGED llm_sem
                      /\ running' = NoTask
                 ELSE /\ qu' = [qu EXCEPT ![q].pc = "openai_wait", ![q].called = called,
                                          ![q].attempt = 0]
                      /\ llm_sem' = llm_sem - 1
                      /\ running' = NoTask
            ELSE /\ qu' = [qu EXCEPT ![q].pc = "cite", ![q].called = called,
                                     ![q].answer = IF outcome = "ok" THEN answer
                                                   ELSE CouldNotGenerateAnswer]
                 /\ UNCHANGED llm_sem
                 /\ running' = QTask(q)
    /\ UNCHANGED <<up, documents, document_chunks, index, embedding_sem,
                   vector_provider, reranker, rr, ce, ck, lim>>
    /\ lastRead' = NoRead

\* openai_chat resumes: the awaited attempt has ended.
query_openai_return(q) ==
    /\ running = NoTask
    /\ qu[q].pc = "openai_wait"
    /\ \E outcome \in OpenAIOutcomes, answer \in Answers :
        LET step == openai_chat_attempt(qu[q].attempt, outcome)
        IN  IF step = "sleep"
            THEN /\ qu' = [qu EXCEPT ![q].attempt = qu[q].attempt + 1]
                 /\ UNCHANGED llm_sem
                 /\ running' = NoTask
            ELSE /\ qu' = [qu EXCEPT ![q].pc = "cite",
                            ![q].answer = CASE step = "ok" -> answer
                                            [] step = "empty" -> CouldNotGenerateAnswer
                                            [] OTHER -> ErrorGeneratingAnswer,
                            ![q].failed = IF step = "error_text"
                                          THEN qu[q].failed \cup {"GENERATE"}
                                          ELSE qu[q].failed]
                 /\ llm_sem' = llm_sem + 1
                 /\ running' = QTask(q)
    /\ UNCHANGED <<up, documents, document_chunks, index, embedding_sem,
                   vector_provider, reranker, rr, ce, ck, lim>>
    /\ lastRead' = NoRead

\* The citation dict of the response (it carries no chunk_id).
CitationDict(c) ==
    [id |-> c.id, title |-> c.title, source |-> c.source, section |-> c.section,
     position |-> c.position, text |-> c.text, score |-> c.score]

\* query_document, lines 203-236 (CITE, RESPOND).
query_cite(q) ==
    /\ running = QTask(q)
    /\ qu[q].pc = "cite"
    /\ LET r == add_citations_to_answer(qu[q].answer, qu[q].reranked)
       IN  qu' = [qu EXCEPT ![q].pc = "done",
                    ![q].called = qu[q].called \cup {"citation"},
                    ![q].citations = r[2],
                    ![q].result = [success |-> TRUE, error |-> "none", answer |-> r[1],
                                   citations |-> [i \in 1..Len(r[2]) |-> CitationDict(r[2][i])]]]
    /\ running' = QTask(q)
    /\ UNCHANGED <<up, documents, document_chunks, index, embedding_sem, llm_sem,
                   vector_provider, reranker, rr, ce, ck, lim>>
    /\ lastRead' = NoRead

\* query_document returns its response (RESPOND): the request is over and
\* its locals are gone.
query_respond(q) ==
    /\ running = QTask(q)
    /\ qu[q].pc = "done"
    /\ qu' = [qu EXCEPT ![q] = QueryIdle]
    /\ running' = NoTask
    /\ UNCHANGED <<up, documents, document_chunks, index, embedding_sem, llm_sem,
                   vector_provider, reranker, rr, ce, ck, lim>>
    /\ lastRead' = NoRead

\* ---------------------------------------------------------- specification
RerankIdle ==
    [state |-> "idle", query |-> <<>>, documents |-> <<>>, top_k |-> 0,
     response |-> NoKeyResponse, result |-> <<>>]

\* No retry loop has ended yet.
NoCall == [outcomes |-> <<>>, ending |-> "none"]

LimIdle == [mode |-> "none", task |-> <<>>, last |-> NoCall]

CiteIdle ==
    [state |-> "idle", answer |-> <<>>, source_chunks |-> <<>>, text |-> <<>>,
     citations |-> <<>>, validation |-> validate_citations(<<>>, <<>>)]

ChunkIdle ==
    [state |-> "idle", content |-> <<>>, cleaned |-> <<>>, raised |-> FALSE, chunks |-> <<>>,
     validation |-> validate_chunks(<<>>)]

InitServices ==
    /\ running = NoTask
    /\ up = [u \in Uploads |-> UploadIdle]
    /\ qu = [q \in Queries |-> QueryIdle]
    /\ documents = <<>>
    /\ document_chunks = <<>>
    /\ index = {}
    /\ embedding_sem = MAX_CONCURRENT_EMBEDDINGS
    /\ llm_sem = MAX_CONCURRENT_LLM
    /\ lastRead = NoRead

Init ==
    /\ InitServices
    /\ vector_provider \in ConfiguredProviders
    /\ reranker \in [provider : {RERANKER_PROVIDER}, api_key : BOOLEAN]
    /\ rr = RerankIdle
    /\ ce = CiteIdle
    /\ ck = ChunkIdle
    /\ lim = LimIdle

Next ==
    \/ \E u \in Uploads : upload_start(u)
    \/ \E u \in Uploads : upload_chunk(u)
    \/ \E u \in Uploads : upload_embed(u)
    \/ \E u \in Uploads : upload_upsert(u)
    \/ \E d \in DocIds : delete_document(d)
    \/ list_documents
    \/ \E d \in DocIds : get_document_info(d)
    \/ \E q \in Queries : query_start(q)
    \/ \E q \in Queries : query_embed(q)
    \/ \E q \in Queries : query_search(q)
    \/ \E q \in Queries : query_rerank(q)
    \/ \E q \in Queries : query_rerank_return(q)
    \/ \E q \in Queries : query_generate(q)
    \/ \E q \in Queries : query_openai_return(q)
    \/ \E q \in Queries : query_cite(q)
    \/ \E q \in Queries : query_respond(q)

Spec == Init /\ [][Next]_vars

\* ------------------------------------------- rerank called on its own
RerankTexts == {<<"a">>, <<"a", "b">>}
RerankTopKs == (0 - MaxCandidates)..(MaxCandidates + 1)

\* Candidates as search results: the i-th has id i.
RerankCandidates ==
    UNION {{[i \in 1..n |-> [id |-> i, text |-> t[i]]] : t \in [1..n -> RerankTexts]} :
            n \in 0..MaxCandidates}

InitRerank ==
    /\ InitServices
    /\ vector_provider = "pinecone"
    /\ reranker \in [provider : RerankProviders, api_key : BOOLEAN]
    /\ ce = CiteIdle
    /\ ck = ChunkIdle
    /\ lim = LimIdle
    /\ \E query \in Questions, docs \in RerankCandidates, top_k \in RerankTopKs :
       \E response \in IF reranker.api_key THEN RemoteResponses(Len(docs))
                       ELSE {NoKeyResponse} :
        rr = [state |-> "ready", query |-> query, documents |-> docs, top_k |-> top_k,
              response |-> response, result |-> <<>>]

\* rerank(query, documents, top_k) of the configured reranker.
rerank_call ==
    /\ rr.state = "ready"
    /\ rr' = [rr EXCEPT !.state = "done",
                        !.result = rerank(reranker.provider, rr.query, rr.documents,
                                          rr.top_k, rr.response)]
    /\ UNCHANGED <<running, up, qu, documents, document_chunks, index, embedding_sem,
                   llm_sem, vector_provider, reranker, lastRead, ce, ck, lim>>

NextRerank == rerank_call

SpecRerank == InitRerank /\ [][NextRerank]_vars

\* ------------------------------------- the citation engine called on its own
MaxRanked == 11
MaxTokens == 4

\* The pieces answers are made of: a letter, a sentence end, a space, and the
\* reference markers a generator writes.
AnswerTokens == {<<"a">>, <<".">>, <<" ">>, <<"[", "1", "]">>, <<"[", "2", "]">>}

RECURSIVE Flatten(_)
Flatten(parts) == IF parts = <<>> THEN <<>> ELSE Head(parts) \o Flatten(Tail(parts))

\* "Cats are mammals. They have four legs. Felines are carnivores."
CatsAnswer ==
    <<"C", "a", "t", "s", " ", "a", "r", "e", " ", "m", "a", "m", "m", "a",
      "l", "s", ".", " ", "T", "h", "e", "y", " ", "h", "a", "v", "e", " ",
      "f", "o", "u", "r", " ", "l", "e", "g", "s", ".", " ", "F", "e", "l",
      "i", "n", "e", "s", " ", "a", "r", "e", " ", "c", "a", "r", "n", "i",
      "v", "o", "r", "e", "s", ".">>

\* "a. Data. b. c. 7.": five sentences, of which the second holds a keyword,
\* the fourth has index 3 and the fifth holds a digit.
FiveSentences ==
    <<"a", ".", " ", "D", "a", "t", "a", ".", " ", "b", ".", " ", "c", ".",
      " ", "7", ".">>

\* The answers attach is called with.
CiteAnswers ==
    {Flatten(parts) : parts \in SeqsUpTo(AnswerTokens, MaxTokens)}
    \cup Answers \cup {CatsAnswer, FiveSentences}

\* n ranked chunks as rerank returns them, best first: the i-th has id i.
RankedChunks(n) ==
    [i \in 1..n |-> [id |-> i, text |-> <<"c">> \o IntToText(i),
                     rerank_score |-> <<n - i + 1, n + 1>>,
                     rerank_provider |-> "fallback"]]

InitCite ==
    /\ InitServices
    /\ vector_provider = "pinecone"
    /\ reranker = [provider |-> RERANKER_PROVIDER, api_key |-> FALSE]
    /\ rr = RerankIdle
    /\ ck = ChunkIdle
    /\ lim = LimIdle
    /\ \E answer \in CiteAnswers, n \in 0..MaxRanked :
        ce = [CiteIdle EXCEPT !.state = "ready", !.answer = answer,
                              !.source_chunks = RankedChunks(n)]

\* add_citations_to_answer(answer, source_chunks)
attach_call ==
    /\ ce.state = "ready"
    /\ LET r == add_citations_to_answer(ce.answer, ce.source_chunks)
       IN  ce' = [ce EXCEPT !.state = "attached", !.text = r[1], !.citations = r[2]]
    /\ UNCHANGED <<running, up, qu, documents, document_chunks, index, embedding_sem,
                   llm_sem, vector_provider, reranker, lastRead, rr, ck, lim>>

\* validate_citations on what attach returned
validate_call ==
    /\ ce.state = "attached"
    /\ ce' = [ce EXCEPT !.state = "validated",
                        !.validation = validate_citations(ce.text, ce.citations)]
    /\ UNCHANGED <<running, up, qu, documents, document_chunks, index, embedding_sem,
                   llm_sem, vector_provider, reranker, lastRead, rr, ck, lim>>

\* validate_citations on a text as it is, with the citations of the chunks
validate_text_call ==
    /\ ce.state = "ready"
    /\ LET citations == _create_citations(ce.source_chunks)
       IN  ce' = [ce EXCEPT !.state = "text_validated", !.text = ce.answer,
                            !.citations = citations,
                            !.validation = validate_citations(ce.answer, citations)]
    /\ UNCHANGED <<running, up, qu, documents, document_chunks, index, embedding_sem,
                   llm_sem, vector_provider, reranker, lastRead, rr, ck, lim>>

NextCite == attach_call \/ validate_call \/ validate_text_call

SpecCite == InitCite /\ [][NextCite]_vars

\* --------------------------------------------- the chunker called on its own
MaxChars == 5
MaxListed == 2

\* The characters contents are made of: an upper-case and a lower-case letter,
\* a colon, a full stop, a space, a line break and a control character.
ContentChars == {"A", "b", ":", ".", " ", "\n", "^A"}

\* Long contents without a separator: as long as a chunk, one character
\* more, the length at which two chunks are full, and one character more.
LongLengths ==
    {chunk_size, chunk_size + 1, 2 * chunk_size - chunk_overlap,
     2 * chunk_size - chunk_overlap + 1}

ChunkContents ==
    SeqsUpTo(ContentChars, MaxChars) \cup {[i \in 1..n |-> "b"] : n \in LongLengths}

\* Chunk dicts a caller hands to validate_chunks: texts with each kind of
\* ending, token estimates on both sides of chunk_size * 1.2.
ListedTexts ==
    {<<>>, <<"b">>, <<"b", ".">>, <<"b", "!">>, <<"b", "?">>, <<"b", "\n">>,
     <<"b", ".", " ">>, <<"b", ".", "\n">>}
ListedTokens == {0, (chunk_size * 12) \div 10, (chunk_size * 12) \div 10 + 1}
ListedChunks == [text : ListedTexts, estimated_tokens : ListedTokens]

InitChunk ==
    /\ InitServices
    /\ vector_provider = "pinecone"
    /\ reranker = [provider |-> RERANKER_PROVIDER, api_key |-> FALSE]
    /\ rr = RerankIdle
    /\ ce = CiteIdle
    /\ lim = LimIdle
    /\ \/ \E content \in ChunkContents :
            ck = [ChunkIdle EXCEPT !.state = "ready", !.content = content]
       \/ \E chunks \in SeqsUpTo(ListedChunks, MaxListed) :
            ck = [ChunkIdle EXCEPT !.state = "listed", !.chunks = chunks]

\* chunk_document(content, source, title, doc_id)
chunk_call ==
    /\ ck.state = "ready"
    /\ LET r == chunk_document(ck.content, 1)
       IN  ck' = [ck EXCEPT !.state = "chunked", !.raised = r.raised, !.chunks = r.chunks]
    /\ UNCHANGED <<running, up, qu, documents, document_chunks, index, embedding_sem,
                   llm_sem, vector_provider, reranker, lastRead, rr, ce, lim>>

\* _clean_content(content)
clean_call ==
    /\ ck.state = "ready"
    /\ ck' = [ck EXCEPT !.state = "cleaned", !.cleaned = _clean_content(ck.content)]
    /\ UNCHANGED <<running, up, qu, documents, document_chunks, index, embedding_sem,
                   llm_sem, vector_provider, reranker, lastRead, rr, ce, lim>>

\* validate_chunks on the chunks chunk_document returned, or on a given list
validate_chunks_call ==
    /\ \/ ck.state = "chunked" /\ ~ck.raised
       \/ ck.state = "listed"
    /\ ck' = [ck EXCEPT !.state = "validated", !.validation = validate_chunks(ck.chunks)]
    /\ UNCHANGED <<running, up, qu, documents, document_chunks, index, embedding_sem,
                   llm_sem, vector_provider, reranker, lastRead, rr, ce, lim>>

NextChunk == chunk_call \/ clean_call \/ validate_chunks_call

SpecChunk == InitChunk /\ [][NextChunk]_vars

\* ------------------------- the embedder and the generator called by many
MaxEmbedCalls == 6
MaxChatCalls == 4

LimTask(t) == <<"call", t>>

LimTaskIds == 1..(IF MaxEmbedCalls > MaxChatCalls THEN MaxEmbedCalls ELSE MaxChatCalls)

\* A task before its call: its position, the outcomes of the attempts its
\* retry loop has made so far, and whether it had to wait for a permit.
LimTaskIdle == [pc |-> "idle", outcomes |-> <<>>, waited |-> FALSE]

\* A task whose call is over.
LimTaskOver == [pc |-> "over", outcomes |-> <<>>, waited |-> FALSE]

\* The exit of "async with <semaphore>": the permit goes back, however the
\* block was left.
semaphore_exit_on_return_only(permits, ending) ==
    IF ending = "ok" THEN permits + 1 ELSE permits

semaphore_exit(permits, ending) == permits + 1

\* The calls are numbered in the order they are made.
IsNextCall(t) ==
    /\ lim.task[t].pc = "idle"
    /\ IF t = 1 THEN TRUE ELSE lim.task[t - 1].pc # "idle"

InitLimit ==
    /\ InitServices
    /\ vector_provider = "pinecone"
    /\ reranker = [provider |-> RERANKER_PROVIDER, api_key |-> FALSE]
    /\ rr = RerankIdle
    /\ ce = CiteIdle
    /\ ck = ChunkIdle
    /\ \/ lim = [mode |-> "embed", task |-> [t \in 1..MaxEmbedCalls |-> LimTaskIdle],
                 last |-> NoCall]
       \/ lim = [mode |-> "chat", task |-> [t \in 1..MaxChatCalls |-> LimTaskIdle],
                 last |-> NoCall]

\* gemini_embed / gemini_embed_query called by task t. The task takes a
\* permit on entry, or waits while none is free; which waiter a released
\* permit goes to is left open. The upstream request blocks the loop, so an
\* attempt starts and ends in one step; a rate-limited attempt sleeps off the
\* loop with the permit held; the permit is given back when the call returns
\* or raises.
embed_call(t) ==
    /\ running = NoTask
    /\ lim.mode = "embed"
    /\ t \in DOMAIN lim.task
    /\ \/ IsNextCall(t)
       \/ lim.task[t].pc = "embed_sleep"
       \/ lim.task[t].pc = "embed_wait" /\ embedding_sem > 0
    /\ IF lim.task[t].pc = "idle" /\ embedding_sem = 0
       THEN /\ lim' = [lim EXCEPT !.task[t].pc = "embed_wait",
                                  !.task[t].waited = TRUE]
            /\ UNCHANGED embedding_sem
       ELSE \E outcome \in EmbedOutcomes :
            LET held == IF lim.task[t].pc = "embed_sleep"
                        THEN embedding_sem ELSE embedding_sem - 1
                outcomes == Append(lim.task[t].outcomes, outcome)
                step == gemini_embed_attempt(Len(lim.task[t].outcomes), outcome)
            IN  IF step = "sleep"
                THEN /\ lim' = [lim EXCEPT !.task[t].pc = "embed_sleep",
                                           !.task[t].outcomes = outcomes]
                     /\ embedding_sem' = held
                ELSE /\ lim' = [lim EXCEPT !.task[t] = LimTaskOver,
                                           !.last = [outcomes |-> outcomes,
                                                     ending |-> step]]
                     /\ embedding_sem' = semaphore_exit(held, step)
    /\ UNCHANGED <<running, up, qu, documents, document_chunks, index, llm_sem,
                   vector_provider, reranker, lastRead, rr, ce, ck>>

\* gemini_chat called by task t: it issues model.generate_content, which
\* blocks the loop until the answer is there; no permit is taken.
chat_start(t) ==
    /\ running = NoTask
    /\ lim.mode = "chat"
    /\ t \in DOMAIN lim.task
    /\ IsNextCall(t)
    /\ lim' = [lim EXCEPT !.task[t].pc = "gemini"]
    /\ running' = LimTask(t)
    /\ UNCHANGED <<up, qu, documents, document_chunks, index, embedding_sem, llm_sem,
                   vector_provider, reranker, lastRead, rr, ce, ck>>

\* generate_content has ended: gemini_chat returns, or on an exception calls
\* openai_chat, which takes a permit of llm_semaphore and awaits its first
\* request, or waits for a permit.
gemini_return(t) ==
    /\ running = LimTask(t)
    /\ t \in DOMAIN lim.task
    /\ lim.task[t].pc = "gemini"
    /\ \E outcome \in GeminiOutcomes :
        IF outcome # "error"
        THEN /\ lim' = [lim EXCEPT !.task[t] = LimTaskOver]
             /\ UNCHANGED llm_sem
        ELSE IF llm_sem = 0
             THEN /\ lim' = [lim EXCEPT !.task[t].pc = "llm_wait",
                                        !.task[t].waited = TRUE]
                  /\ UNCHANGED llm_sem
             ELSE /\ lim' = [lim EXCEPT !.task[t].pc = "openai"]
                  /\ llm_sem' = llm_sem - 1
    /\ running' = NoTask
    /\ UNCHANGED <<up, qu, documents, document_chunks, index, embedding_sem,
                   vector_provider, reranker, lastRead, rr, ce, ck>>

\* A task waiting at llm_semaphore gets a permit and awaits its first request.
openai_admit(t) ==
    /\ running = NoTask
    /\ t \in DOMAIN lim.task
    /\ lim.task[t].pc = "llm_wait"
    /\ llm_sem > 0
    /\ lim' = [lim EXCEPT !.task[t].pc = "openai"]
    /\ llm_sem' = llm_sem - 1
    /\ UNCHANGED <<running, up, qu, documents, document_chunks, index, embedding_sem,
                   vector_provider, reranker, lastRead, rr, ce, ck>>

\* The awaited request of openai_chat has ended: the call returns the answer,
\* the could-not-generate text or the error text and gives the permit back,
\* or sleeps before the next attempt with the permit held.
openai_return(t) ==
    /\ running = NoTask
    /\ t \in DOMAIN lim.task
    /\ lim.task[t].pc = "openai"
    /\ \E outcome \in OpenAIOutcomes :
        LET outcomes == Append(lim.task[t].outcomes, outcome)
            step == openai_chat_attempt(Len(lim.task[t].outcomes), outcome)
        IN  IF step = "sleep"
            THEN /\ lim' = [lim EXCEPT !.task[t].pc = "openai_sleep",
                                       !.task[t].outcomes = outcomes]
                 /\ UNCHANGED llm_sem
            ELSE /\ lim' = [lim EXCEPT !.task[t] = LimTaskOver,
                                       !.last = [outcomes |-> outcomes, ending |-> step]]
                 /\ llm_sem' = semaphore_exit(llm_sem, step)
    /\ UNCHANGED <<running, up, qu, documents, document_chunks, index, embedding_sem,
                   vector_provider, reranker, lastRead, rr, ce, ck>>

\* The sleep of openai_chat is over: the next request is issued and awaited.
openai_wake(t) ==
    /\ running = NoTask
    /\ t \in DOMAIN lim.task
    /\ lim.task[t].pc = "openai_sleep"
    /\ lim' = [lim EXCEPT !.task[t].pc = "openai"]
    /\ UNCHANGED <<running, up, qu, documents, document_chunks, index, embedding_sem,
                   llm_sem, vector_provider, reranker, lastRead, rr, ce, ck>>

NextLimit ==
    \/ \E t \in LimTaskIds : embed_call(t)
    \/ \E t \in LimTaskIds : chat_start(t)
    \/ \E t \in LimTaskIds : gemini_return(t)
    \/ \E t \in LimTaskIds : openai_admit(t)
    \/ \E t \in LimTaskIds : openai_return(t)
    \/ \E t \in LimTaskIds : openai_wake(t)

SpecLimit == InitLimit /\ [][NextLimit]_vars

\* A step of a call that has begun: the next attempt of an embedder call, the
\* end of an upstream request, the admission of a waiter, the end of a sleep.
LimAt(t, pcs) == t \in DOMAIN lim.task /\ lim.task[t].pc \in pcs

LimProgress ==
    \E t \in LimTaskIds :
        \/ LimAt(t, {"embed_wait", "embed_sleep"}) /\ embed_call(t)
        \/ gemini_return(t)
        \/ openai_admit(t)
        \/ openai_return(t)
        \/ openai_wake(t)

\* The loop keeps running what is ready to run, and every upstream request
\* and every sleep comes to an end; no call has to arrive.
FairSpecLimit == SpecLimit /\ WF_vars(LimProgress)

\* ================================================================== claims
\* A finished upload that failed, and the entries its doc id has.
UploadFailed(u) == up[u].pc = "done" /\ ~up[u].result.success
HasEntry(d) ==
    \/ d \in DOMAIN documents
    \/ d \in DOMAIN document_chunks
    \/ \E v \in index : v.doc_id = d

\* C1: an upload that fails at any ingest stage returns {success: false,
\* error} and leaves nothing behind: the documents table, the
\* document_chunks table and the vector index hold no entry for the doc id
\* that the upload generated.
C1_FailedUploadLeavesNoState ==
    \A u \in Uploads :
        UploadFailed(u) => /\ up[u].result.error # "none"
                           /\ ~HasEntry(u)

\* C2: uploading an empty or whitespace-only text returns {success: false}
\* and creates no document: neither table has an entry for it after the
\* call, and neither the embedder nor the vector index was called.
C2_EmptyUploadCreatesNoDocument ==
    \A u \in Uploads :
        (up[u].pc = "done" /\ strip(up[u].content) = <<>>) =>
            /\ ~up[u].result.success
            /\ u \notin DOMAIN documents
            /\ u \notin DOMAIN document_chunks
            /\ up[u].called = {}

\* C3: no reader observes a document whose ingest has not fully completed:
\* every document that list_documents or get_document_info returns, and
\* every document that the lookup of query_document finds, is INDEXED at
\* that moment.
C3_ReadersSeeOnlyIndexedDocuments ==
    /\ \A e \in lastRead.docs : e.stage = "INDEXED"
    /\ \A q \in Queries :
        (qu[q].pc = "embed" /\ running = QTask(q)) =>
            Stage(qu[q].document_id) = "INDEXED"

\* C4: query_document goes past its lookup, to EMBED_QUERY and the later
\* stages, only for a doc id whose ingest reached INDEXED; a query of a
\* document whose upload failed or is still in progress is rejected with an
\* error.
C4_QueryProceedsOnlyForIndexed ==
    \A q \in Queries :
        (running = QTask(q) /\ qu[q].called = {} /\ qu[q].pc # "idle") =>
            IF Stage(qu[q].document_id) = "INDEXED" /\ qu[q].document_id \in DOMAIN documents
            THEN qu[q].pc = "embed"
            ELSE qu[q].pc = "done" /\ ~qu[q].result.success
                                   /\ qu[q].result.error # "none"

\* The chunk_id the chunker assigned to the chunk behind a ranked candidate.
CandidateChunkId(candidate) ==
    ChunkId(candidate.metadata.doc_id, candidate.metadata.position)

\* C5: no citation is fabricated: the chunk_id of every Citation of a query
\* is the chunk_id, as the chunker assigned it at ingest, of one of the
\* ranked candidates that were passed to the answer generator.
C5_CitationChunkIdsComeFromCandidates ==
    \A q \in Queries :
        "citation" \in qu[q].called =>
            \A i \in 1..Len(qu[q].citations) :
                \E j \in 1..Len(qu[q].reranked) :
                    qu[q].citations[i].chunk_id = CandidateChunkId(qu[q].reranked[j])

\* C6: a request in which a stage of the query path failed is answered with
\* {success: false, error}, never with success: true, unless the stage was
\* RERANK (whose failure degrades to the fallback scoring).
C6_StageFailureGivesErrorResponse ==
    \A q \in Queries :
        (qu[q].pc = "done" /\ qu[q].failed \ {"RERANK"} # {}) =>
            ~qu[q].result.success /\ qu[q].result.error # "none"

\* C7: when SEARCH returns no candidate for a known document, the query ends
\* there with success: true, the canned no-relevant-information answer and
\* no citations; the reranker, the answer generator and the citation engine
\* are not invoked.
C7_ZeroCandidatesShortCircuit ==
    \A q \in Queries :
        ("index" \in qu[q].called /\ qu[q].search_results = <<>>) =>
            /\ qu[q].pc = "done"
            /\ qu[q].result = [success |-> TRUE, error |-> "none",
                               answer |-> NoInformationAnswer, citations |-> <<>>]
            /\ qu[q].called \cap {"reranker", "generator", "citation"} = {}

\* A query of a known document whose search came back empty has ended.
C7_Witness ==
    \E q \in Queries :
        /\ qu[q].pc = "done"
        /\ "index" \in qu[q].called
        /\ qu[q].search_results = <<>>
        /\ qu[q].failed = {}
        /\ qu[q].document_id \in DOMAIN documents

\* C8: querying a doc id that is not in the documents table (never uploaded,
\* or deleted) returns {success: false, error: "Document not found"} and
\* calls neither the embedder, the vector index, the reranker nor the
\* generator.
C8_UnknownDocumentRejected ==
    \A q \in Queries :
        /\ (running = QTask(q) /\ qu[q].called = {} /\ qu[q].pc # "idle"
                /\ qu[q].document_id \notin DOMAIN documents) =>
            (qu[q].pc = "done" /\ qu[q].result = QueryFailure("Document not found"))
        /\ (qu[q].pc = "done" /\ qu[q].result.error = "Document not found") =>
            qu[q].called = {}

\* A query of a document that was indexed and then deleted has been rejected.
C8_Witness ==
    \E q \in Queries :
        /\ qu[q].pc = "done"
        /\ qu[q].result = QueryFailure("Document not found")
        /\ Stage(qu[q].document_id) = "INDEXED"
        /\ qu[q].document_id \notin DOMAIN documents

\* The remote call of a rerank failed: no credential, a network error, a
\* non-2xx status, a body that is not JSON, or a JSON body without the
\* "results" list.
RemoteCallFailed(response) == RemoteRaises(response) \/ ~response.has_results

\* C9: for a non-empty query and a non-empty candidate list, whenever the
\* remote provider call fails, rerank returns the local fallback scoring and
\* every returned candidate carries rerank_provider = "fallback".
C9_RemoteFailureGivesFallback ==
    (/\ rr.state = "done"
     /\ rr.query # <<>>
     /\ rr.documents # <<>>
     /\ RemoteCallFailed(rr.response)) =>
        /\ rr.result = _fallback_rerank(rr.query, rr.documents, rr.top_k)
        /\ \A i \in 1..Len(rr.result) : rr.result[i].rerank_provider = "fallback"

\* C10: rerank returns the empty sequence whenever top_k <= 0 or there is no
\* candidate, and at most min(top_k, len(candidates)) candidates for
\* top_k > 0, on the remote path and on the fallback path.
C10_TopKBoundsTheResult ==
    rr.state = "done" =>
        IF rr.top_k <= 0 \/ rr.documents = <<>>
        THEN rr.result = <<>>
        ELSE /\ Len(rr.result) <= rr.top_k
             /\ Len(rr.result) <= Len(rr.documents)

\* How often the candidate with this id occurs in a result of rerank.
Occurrences(result, id) == Cardinality({j \in 1..Len(result) : result[j].id = id})

\* C11: with top_k larger than the number of candidates (and a query), rerank
\* returns exactly len(candidates) results in which every input candidate
\* occurs exactly once, whatever the remote provider answers.
C11_LargeTopKReturnsEveryCandidateOnce ==
    (/\ rr.state = "done"
     /\ rr.query # <<>>
     /\ rr.top_k > Len(rr.documents)) =>
        /\ Len(rr.result) = Len(rr.documents)
        /\ \A i \in 1..Len(rr.documents) : Occurrences(rr.result, rr.documents[i].id) = 1

\* The result is in descending order of rerank_score, and candidates of
\* equal score stand in the order of the input list (candidate i has id i).
OrderedStable(result) ==
    \A i, j \in 1..Len(result) :
        i < j => /\ ~ScoreLess(result[i].rerank_score, result[j].rerank_score)
                 /\ (result[i].rerank_score[1] * result[j].rerank_score[2]
                        = result[j].rerank_score[1] * result[i].rerank_score[2])
                    => result[i].id < result[j].id

\* C12: the sequence rerank returns is ordered by rerank_score descending,
\* candidates of equal score keeping their order of the input list, for
\* results tagged with a remote provider as for results tagged "fallback".
C12_ResultOrderedByScoreStable ==
    rr.state = "done" => OrderedStable(rr.result)


Min(a, b) == IF a < b THEN a ELSE b

C14_MarkersCountUpFromOne ==
    (ce.state = "attached" /\ ce.citations # <<>>) =>
        LET ids == extract_citations_from_text(ce.text)
        IN  /\ Len(ids) <= Len(ce.citations)
            /\ \A i \in 1..Len(ids) : ids[i] = i

\* C15: attach on the three sentences about cats with three ranked chunks
\* gives the markers [1], [2], [3], and validate on that output reports no
\* missing citation, no unused citation and a coverage of one.
C15_CatsAnswerGetsThreeMarkers ==
    (/\ ce.state \in {"attached", "validated"}
     /\ ce.answer = CatsAnswer
     /\ Len(ce.source_chunks) = 3) =>
        /\ extract_citations_from_text(ce.text) = <<1, 2, 3>>
        /\ ce.state = "validated" =>
            /\ ce.validation.missing_citations = <<>>
            /\ ce.validation.unused_citations = <<>>
            /\ ce.validation.citation_coverage[1] = ce.validation.citation_coverage[2]

\* C16: validate on what attach returned reports is_valid with nothing missing.
C16_AttachOutputValidates ==
    ce.state = "validated" =>
        /\ ce.validation.is_valid
        /\ ce.validation.missing_citations = <<>>

\* The number of citations whose id some marker of the text names.
Referenced(text, citations) ==
    Cardinality({i \in 1..Len(citations) :
        \E j \in 1..Len(extract_citations_from_text(text)) :
            extract_citations_from_text(text)[j] = citations[i].id})

\* C17: the coverage validate reports is the number of citations a marker
\* names over the number of citations (zero without citations), hence at most
\* one, and one exactly when no citation is unused.
C17_CoverageIsReferencedOverTotal ==
    ce.state \in {"validated", "text_validated"} =>
        LET cov == ce.validation.citation_coverage
            total == Len(ce.citations)
        IN  /\ cov[1] * (IF total = 0 THEN 1 ELSE total)
                 = Referenced(ce.text, ce.citations) * cov[2]
            /\ cov[1] <= cov[2]
            /\ (total > 0 => (cov[1] = cov[2] <=> ce.validation.unused_citations = <<>>))


\* C18: chunk_document returns a list of chunks for every content string, a
\* single ALL-CAPS line or a title line ending in a colon included: it never
\* raises.
C18_ChunkDocumentNeverRaises ==
    ck.state = "chunked" => ~ck.raised

\* The chunk texts joined in order, each one after the first without the
\* chunk_overlap characters it shares with the chunk before it.
Reassembled(chunks) ==
    Flatten([i \in 1..Len(chunks) |->
        IF i = 1 THEN chunks[i].text
        ELSE SubSeq(chunks[i].text, chunk_overlap + 1, Len(chunks[i].text))])

\* C19: for a content that is not blank, chunk_document returns at least one
\* chunk and the chunk texts put together give the normalized content.
C19_ChunksReconstructNormalizedContent ==
    (ck.state = "chunked" /\ strip(ck.content) # <<>>) =>
        /\ ~ck.raised
        /\ Len(ck.chunks) >= 1
        /\ Reassembled(ck.chunks) = _clean_content(ck.content)

\* A chunk is a broken sentence when the last character of its text is not a
\* full stop, an exclamation mark, a question mark or a line break (a text
\* without characters has no such last character).
LastCharBroken(text) ==
    text # <<>> /\ text[Len(text)] \notin {".", "!", "?", "\n"}

\* C20: validate_chunks reports the overall quality "good" exactly when no
\* chunk is oversized and no chunk's text ends in a character other than a
\* full stop, an exclamation mark, a question mark or a line break.
C20_GoodIffNoOversizedNoBroken ==
    (ck.state = "validated" /\ ck.chunks # <<>>) =>
        (Get(ck.validation, "overall_quality", "absent") = "good"
            <=> \A i \in 1..Len(ck.chunks) :
                    /\ ~IsOversized(ck.chunks[i])
                    /\ ~LastCharBroken(ck.chunks[i].text))


StageRank(stage) ==
    CASE stage = "NONE" -> 0
      [] stage = "UPLOADED" -> 1
      [] stage = "CHUNKED" -> 2
      [] stage = "EMBEDDED" -> 3
      [] stage = "INDEXED" -> 4
      [] OTHER -> 5

\* A step leaves the stage of upload u alone, moves it to the next stage of
\* the ingest path, or ends the upload as failed.
StageMovesForward(u) ==
    LET a == StageRank(Stage(u))
        b == StageRank(Stage(u)')
    IN  \/ b = a
        \/ a < 4 /\ b = a + 1
        \/ a \in 1..3 /\ b = 5

\* The upsert of upload u comes after its embeddings, and its success response
\* after an upsert that stored the vector of every chunk.
UpsertAfterEmbedding(u) ==
    /\ Stage(u) \in {"NONE", "UPLOADED"} => up[u].called = {}
    /\ Stage(u) = "CHUNKED" => "index" \notin up[u].called
    /\ Stage(u) = "EMBEDDED" => up[u].called = {"embedder"}
    /\ "index" \in up[u].called => "embedder" \in up[u].called
    /\ Stage(u) = "INDEXED" => "index" \in up[u].called

SuccessAfterUpsert(u) ==
    (Stage(u) = "EMBEDDED" /\ Stage(u)' = "INDEXED") =>
        \A i \in 1..Len(up[u].chunks) :
            StoredVector(vector_provider, up[u].chunks[i]) \in index'

\* C24: every upload goes through UPLOADED, CHUNKED, EMBEDDED, INDEXED in
\* this order, one stage at a time and never backwards; the upsert is issued
\* only after the embedder returned, and the success response only after the
\* upsert stored every vector.
C24_IngestStagesInOrder ==
    /\ [][\A u \in Uploads : StageMovesForward(u) /\ SuccessAfterUpsert(u)]_vars
    /\ [](\A u \in Uploads : UpsertAfterEmbedding(u))

\* An upload has gone through every stage and answered with success.
C24_Witness ==
    \E u \in Uploads :
        /\ Stage(u) = "INDEXED"
        /\ up[u].called = {"embedder", "index"}
        /\ \A i \in 1..Len(up[u].chunks) :
            StoredVector(vector_provider, up[u].chunks[i]) \in index


\* C27: whatever delete_document calls run while an upload is in flight, the
\* upload that answers with success names a document that is then in the
\* documents table with its chunks in document_chunks: the vector index
\* receives no vector of a doc id that has no document record.
C27_IndexedDocumentHasRecord ==
    [][\A v \in index' \ index :
          /\ v.doc_id \in DOMAIN documents'
          /\ v.doc_id \in DOMAIN document_chunks']_vars

\* C28: every candidate handed to the reranker for a query against a document
\* comes from a chunk ingested for that document, with every vector provider.
C28_CandidatesBelongToQueriedDocument ==
    \A q \in Queries :
        qu[q].pc \in {"rerank", "rerank_wait"} =>
            \A i \in 1..Len(qu[q].search_results) :
                qu[q].search_results[i].metadata.doc_id = qu[q].document_id


\* The rule for sentence i (0-based): it is the first, or it holds an
\* attribution keyword in any case, or a digit, or i is a multiple of three.
CitationRule(sentence, i) ==
    \/ i = 0
    \/ \E keyword \in citation_keywords : Contains(lower(sentence), keyword)
    \/ \E k \in 1..Len(sentence) : sentence[k] \in Digits
    \/ i % 3 = 0

\* The sentences (1-based positions) the rule selects.
Eligible(sentences) ==
    {i \in 1..Len(sentences) : CitationRule(sentences[i], i - 1)}

\* The selected sentences reached while one of n citations is still unused.
MarkedOf(sentences, n) ==
    {i \in Eligible(sentences) : Cardinality({j \in Eligible(sentences) : j < i}) < n}

\* The parts joined by single spaces, those of marked carrying " [k]", k
\* counting the marked parts from one.
MarkedText(parts, marked) ==
    JoinSpace([i \in 1..Len(parts) |->
        IF i \in marked
        THEN parts[i] \o <<" ", "[">>
                 \o IntToText(Cardinality({j \in marked : j <= i})) \o <<"]">>
        ELSE parts[i]])

\* C25: sentence i gets a marker exactly when a citation is still unused as
\* it is reached and the rule selects it; the markers number the smaller of
\* the selected sentences and the citations, and no sentence after the last
\* citation is used gets one.
C25_MarkedSentencesFollowTheRule ==
    (ce.state = "attached" /\ ce.citations # <<>>) =>
        LET sentences == _split_into_sentences(ce.answer)
            marked == MarkedOf(sentences, Len(ce.citations))
        IN  /\ ce.text = MarkedText(sentences, marked)
            /\ Cardinality(marked)
                 = Min(Cardinality(Eligible(sentences)), Len(ce.citations))

\* attach has run out of citations before the sentences the rule selects: one
\* citation, the five sentences, only the first one marked.
C25_Witness ==
    /\ ce.state = "attached"
    /\ ce.answer = FiveSentences
    /\ Len(ce.citations) = 1
    /\ Cardinality(Eligible(_split_into_sentences(ce.answer))) = 4
    /\ extract_citations_from_text(ce.text) = <<1>>


\* The fragments of the list that have at least one character.
RECURSIVE NonEmpty(_)
NonEmpty(fragments) ==
    IF fragments = <<>> THEN <<>>
    ELSE IF Head(fragments) = <<>> THEN NonEmpty(Tail(fragments))
         ELSE <<Head(fragments)>> \o NonEmpty(Tail(fragments))

\* The text is the parts in order joined by single spaces, some of them
\* followed by an inserted marker, and holds no sentence-ending character.
IsPartsWithMarkers(text, parts) ==
    /\ \A k \in 1..Len(text) : text[k] \notin SentenceEnds
    /\ \E marked \in SUBSET (1..Len(parts)) : text = MarkedText(parts, marked)

\* What attach may do to an answer, given the parts it is rebuilt from.
AttachFrame(parts) ==
    IF ce.source_chunks = <<>>
    THEN ce.text = ce.answer /\ ce.citations = <<>>
    ELSE IsPartsWithMarkers(ce.text, parts)

\* C30, as stated: the annotated answer is the non-empty fragments of the
\* answer split at runs of '.', '!' and '?', joined by single spaces.
C30_AnnotatedAnswerIsTheFragments ==
    ce.state = "attached" => AttachFrame(NonEmpty(SplitFragments(ce.answer, <<>>)))

\* C30, amended: the fragments are trimmed of the whitespace around them and
\* those left without a character are dropped; with no ranked chunk the
\* answer is returned as it is, with no citation.
C30_AnnotatedAnswerIsTheTrimmedFragments ==
    ce.state = "attached" => AttachFrame(_split_into_sentences(ce.answer))

\* attach has rebuilt an answer of several sentences that held sentence ends
\* and spaces around its fragments.
C30_Witness ==
    /\ ce.state = "attached"
    /\ ce.source_chunks # <<>>
    /\ ce.answer = FiveSentences
    /\ ce.text # ce.answer
    /\ Len(_split_into_sentences(ce.answer)) = 5


\* C26: what _clean_content returns holds no control character, no
\* whitespace at either end and no two whitespace characters in a row, and
\* cleaning it again changes nothing.
C26_CleanContentIsNormalForm ==
    ck.state = "cleaned" =>
        /\ \A i \in 1..Len(ck.cleaned) : ck.cleaned[i] \notin ControlChars
        /\ strip(ck.cleaned) = ck.cleaned
        /\ \A i \in 1..(Len(ck.cleaned) - 1) :
            ~(ck.cleaned[i] \in Whitespace /\ ck.cleaned[i + 1] \in Whitespace)
        /\ _clean_content(ck.cleaned) = ck.cleaned

InRetryLoop(t) == LimAt(t, {"embed_sleep", "openai", "openai_sleep"})

AllRateLimited(outcomes) == \A i \in DOMAIN outcomes : outcomes[i] = "rate_limit"

\* A call that is going to make another attempt has only rate-limited
\* attempts behind it, fewer than MAX_RETRIES of them.
RetriesOnlyAfterRateLimit ==
    \A t \in DOMAIN lim.task :
        /\ AllRateLimited(lim.task[t].outcomes)
        /\ Len(lim.task[t].outcomes) < MAX_RETRIES

\* A call that has ended made at most MAX_RETRIES attempts, all but the last
\* rate-limited; it returned normally exactly when its last attempt
\* succeeded, and a rate-limited last attempt was attempt number MAX_RETRIES.
EndedCallWithinCeiling ==
    lim.last # NoCall =>
        LET outcomes == lim.last.outcomes
            n == Len(outcomes)
        IN  /\ n \in 1..MAX_RETRIES
            /\ AllRateLimited(SubSeq(outcomes, 1, n - 1))
            /\ (lim.last.ending \in {"ok", "empty"}) = (outcomes[n] \in {"ok", "empty"})
            /\ outcomes[n] = "rate_limit" => n = MAX_RETRIES

\* C21: a call of gemini_embed / gemini_embed_query / openai_chat makes
\* another attempt only after a rate-limited one, makes at most MAX_RETRIES
\* (3) attempts, so that any other failure surfaces at the attempt it happens
\* in and a rate-limited third attempt surfaces without a fourth, and every
\* call that has begun comes to an end.
C21_RetryOnlyOnRateLimitWithinCeiling ==
    /\ [](RetriesOnlyAfterRateLimit /\ EndedCallWithinCeiling)
    /\ \A t \in LimTaskIds :
        InRetryLoop(t) ~> LimAt(t, {"over"})

\* A call has surfaced its third rate-limited attempt.
C21_Witness ==
    /\ lim.last.outcomes = <<"rate_limit", "rate_limit", "rate_limit">>
    /\ lim.last.ending \in {"raise", "error_text"}

\* ------------------------------------------------------------------ C22
\* The calls that are inside gemini_embed, between taking and giving back the
\* permit (an upstream request that blocks the loop begins and ends within
\* one step, so between steps these are the calls backing off).
InEmbedderCall == {t \in DOMAIN lim.task : lim.task[t].pc = "embed_sleep"}

\* The calls with a request to an answer generator in flight: the one inside
\* model.generate_content of gemini_chat, and those awaiting
\* chat.completions.create of openai_chat.
InGeneratorCall == {t \in DOMAIN lim.task : lim.task[t].pc \in {"gemini", "openai"}}

\* C22: at no time are more than MAX_CONCURRENT_EMBEDDINGS (5) calls inside
\* the embedder, nor more than MAX_CONCURRENT_LLM (3) calls inside an
\* upstream answer-generator request, the Gemini request included.
C22_UpstreamCallsWithinLimits ==
    /\ Cardinality(InEmbedderCall) <= MAX_CONCURRENT_EMBEDDINGS
    /\ Cardinality(InGeneratorCall) <= MAX_CONCURRENT_LLM

\* ------------------------------------------------------------------ C23
LimWaiting(t) == LimAt(t, {"embed_wait", "llm_wait"})

\* Where an admitted call is: an embedder call makes its first attempt in the
\* step that admits it, and so is backing off or over; a generator call
\* awaits its first request.
LimAdmitted(t) == LimAt(t, {"embed_sleep", "openai", "over"})

\* A call waiting at a limiter stays waiting or is admitted, nothing else.
WaiterIsNeverRejected ==
    \A t \in LimTaskIds : LimWaiting(t) => (LimWaiting(t)' \/ LimAdmitted(t)')

\* C23: a call that finds embedding_semaphore or llm_semaphore without a free
\* permit waits, is never turned away, and, every upstream request and sleep
\* coming to an end, is eventually admitted.
C23_WaiterIsEventuallyAdmitted ==
    /\ [][WaiterIsNeverRejected]_vars
    /\ \A t \in LimTaskIds : LimWaiting(t) ~> LimAdmitted(t)

\* A call that had to wait has been admitted and is inside its retry loop.
C23_Witness ==
    \E t \in DOMAIN lim.task :
        /\ lim.task[t].waited
        /\ lim.task[t].pc \in {"embed_sleep", "openai", "openai_sleep"}

====
